---- MODULE Spec2Model ----
(***************************************************************************)
(* A model of the convex-svelte query layer: the ConvexQueryStore (keyed   *)
(* registry of cache entries, one RemoteClient subscription per entry,     *)
(* reference counted by subscriber callbacks), the store-backed useQuery   *)
(* observer (subscription effect and updateLocalStateFromEntry), and the   *)
(* usePaginatedQuery engine.                                               *)
(*                                                                         *)
(* JavaScript values are records [t, v]: t is "undefined", "value" or      *)
(* "error"; a value with v = 0 is a falsy value (0, "", false, null).      *)
(* Args objects are sequences of <<field, value>> pairs in insertion       *)
(* order, so that two objects can hold the same fields in another order.   *)
(***************************************************************************)
EXTENDS Integers, Sequences, FiniteSets, TLC

\* ---------------------------------------------------------------- bounds
NumObservers == 2
MaxVal == 1
MaxNumItems == 1
MaxPages == 2

\* ---------------------------------------------------------------- values
Undefined == [t |-> "undefined", v |-> 0]
Val(n) == [t |-> "value", v |-> n]
Err(n) == [t |-> "error", v |-> n]
Values == {Val(n) : n \in 0..MaxVal}
Errors == {Err(1)}
IsUndefined(x) == x.t = "undefined"
IsError(x) == x.t = "error"
\* JavaScript truthiness: undefined and the falsy value are false.
Truthy(x) == x.t = "error" \/ (x.t = "value" /\ x.v # 0)

Observers == 1..NumObservers
\* An entry object is named by the key it was made for and a serial that
\* tells it from an older object of that key which is still alive.
NoEntry == <<"none", <<>>, 0>>

\* Args objects the callers pass: the first two hold the same fields in a
\* different insertion order, the third differs in a field's value.
RawArgs ==
  { << <<1, 0>>, <<2, 0>> >>,
    << <<2, 0>>, <<1, 0>> >>,
    << <<1, 1>>, <<2, 0>> >> }

\* An optional args snapshot: <<>> is undefined, <<a>> holds a.
NoArgs == <<>>
SomeArgs(a) == <<a>>


\* The outcome of RemoteClient.localQueryResult: nothing, a value, an Error
\* returned, an Error thrown, or a non-Error thrown.
ReadOutcomes ==
  {[kind |-> "none", val |-> Undefined]}
    \cup {[kind |-> "value", val |-> Val(MaxVal)]}
    \cup {[kind |-> k, val |-> e] : k \in {"error", "throwError"}, e \in Errors}
    \cup {[kind |-> "throwOther", val |-> Undefined]}

\* The updater functions passed to updateQueryData.
Updaters == {"next", "same"}
ApplyUpdater(u, x) ==
  IF u = "next" THEN Val((x.v + 1) % (MaxVal + 1)) ELSE x

VARIABLES
  disabled,        \* client.disabled
  cache,           \* ConvexQueryStore.cache: cache key -> entry id or NoEntry
  entries,         \* the QueryCacheEntry objects alive, by id
  destroyed,       \* store.destroy() has run (session teardown)
  bound,           \* bound[o]: observer o's subscription effect has run
  argsObject,      \* argsObject[o]: the args of o's current effect run
  keepPreviousData,\* the keepPreviousData option the session's observers pass
  currentEntry,    \* currentEntry[o]: the entry o's closure holds, or NoEntry
  localState,      \* localState[o]: the view o exposes
  staleKeys,       \* history: keys whose evicted entry had held a result
  doubleClose,     \* history: a remote unsubscribe was called a second time
  history,         \* the history this specification keeps: "none",
                   \* "evictions" (staleKeys) or "closes" (doubleClose)
  pages,           \* usePaginatedQuery state.pages
  isLoadingMore,   \* usePaginatedQuery state.isLoadingMore
  resetTimers,     \* pending setTimeout callbacks of loadMore
  pageQueries,     \* page indexes queries.forEach made an observer for
  initialNumItems, \* parsedOptions.initialNumItems
  fallback,        \* the state of a store-less useQuery given observer 1's inputs
  registered,      \* history: the subscribed observers, in the order of
                   \* their store.subscribe calls
  notifyLog        \* history: the callbacks the last notifySubscribers
                   \* invoked, in the order of their invocation

\* UseQueryOptions: initialData (possibly undefined) and keepPreviousData.
Options ==
  [initialData : {Undefined, Val(MaxVal)}, keepPreviousData : {keepPreviousData}]

vars ==
  << disabled, history, cache, entries, destroyed, bound, argsObject, keepPreviousData,
     currentEntry, localState, staleKeys, doubleClose, pages, isLoadingMore, resetTimers, pageQueries,
     initialNumItems, fallback, registered, notifyLog >>

auxVars == << fallback, registered, notifyLog >>
storeVars == << cache, entries, destroyed, staleKeys, doubleClose >>
observerVars ==
  << bound, argsObject, currentEntry, localState >>
pageVars == << pages, isLoadingMore, resetTimers, pageQueries >>

\* ------------------------------------------------------- cache key codec
RECURSIVE InsertSorted(_, _)
InsertSorted(p, s) ==
  IF s = <<>> THEN <<p>>
  ELSE IF p[1] <= Head(s)[1] THEN <<p>> \o s
  ELSE <<Head(s)>> \o InsertSorted(p, Tail(s))

RECURSIVE SortFields(_)
SortFields(s) ==
  IF s = <<>> THEN <<>> ELSE InsertSorted(Head(s), SortFields(Tail(s)))

\* convexToJson serialises an object with its fields in sorted order.
ConvexToJson(args) == SortFields(args)

\* Faulty variant: the key is built from the args object as passed, its
\* fields in insertion order.
GenerateCacheKeyByIdentity(args) == <<"query", args>>

\* `${functionName}:${argsJson}`; the model has one query function.
GenerateCacheKey(args) == <<"query", ConvexToJson(args)>>

CacheKeys == {GenerateCacheKey(a) : a \in RawArgs}

\* ------------------------------------------------------------ store state
\* The store's mutable state, threaded through one handler's calls.
St ==
  [cache |-> cache, entries |-> entries, doubleClose |-> FALSE,
   staleKeys |-> staleKeys]

\* Faulty variant: a new member is put before the older ones.
SetAddFirst(s, x) ==
  IF \E i \in 1..Len(s) : s[i] = x THEN s ELSE <<x>> \o s

\* A JavaScript Set keeps insertion order and ignores a second add.
SetAdd(s, x) ==
  IF \E i \in 1..Len(s) : s[i] = x THEN s ELSE Append(s, x)
SetDelete(s, x) == SelectSeq(s, LAMBDA y : y # x)
Members(s) == {s[i] : i \in 1..Len(s)}

EntryIds == {<<"entry", k, n>> : k \in CacheKeys, n \in 0..1}
FreeIds(st, cacheKey) ==
  {id \in EntryIds \ DOMAIN st.entries : id[2] = cacheKey}
FreshId(st, cacheKey) ==
  CHOOSE i \in FreeIds(st, cacheKey) : \A j \in FreeIds(st, cacheKey) : i[3] <= j[3]

\* createCacheEntry: the entry's fields come from initialData alone; the
\* remote subscription is opened unless the client is disabled.  The field
\* unsubscribe is "null", or the state of the subscription it closes.
CreateCacheEntry(args, initialData) ==
  [ args |-> args,
    data |-> initialData,
    error |-> Undefined,
    isLoading |-> (initialData = Undefined),
    isStale |-> FALSE,
    subscribers |-> <<>>,
    unsubscribe |-> IF ~disabled THEN "open" ELSE "null",
    lastResult |-> initialData,
    argsForLastResult |-> IF Truthy(initialData) THEN SomeArgs(args) ELSE NoArgs ]

\* Faulty variant: a success leaves the mark of optimistic data in place.
OnDataKeepsStale(entry, dataFromServer) ==
  [entry EXCEPT !.data = dataFromServer, !.error = Undefined,
                !.isLoading = FALSE,
                !.lastResult = dataFromServer,
                !.argsForLastResult = SomeArgs(entry.args)]

\* The onUpdate success callback of createCacheEntry.
OnData(entry, dataFromServer) ==
  [entry EXCEPT !.data = dataFromServer, !.error = Undefined,
                !.isLoading = FALSE, !.isStale = FALSE,
                !.lastResult = dataFromServer,
                !.argsForLastResult = SomeArgs(entry.args)]

\* Faulty variant: the failure callback leaves isLoading as it was.
OnErrorStaysLoading(entry, e) ==
  [entry EXCEPT !.data = Undefined, !.error = e,
                !.isStale = FALSE,
                !.lastResult = e,
                !.argsForLastResult = SomeArgs(entry.args)]

\* Faulty variant: the failure callback leaves the entry's data in place.
OnErrorKeepsData(entry, e) ==
  [entry EXCEPT !.error = e,
                !.isLoading = FALSE, !.isStale = FALSE,
                !.lastResult = e,
                !.argsForLastResult = SomeArgs(entry.args)]

\* The onUpdate failure callback of createCacheEntry.
OnError(entry, e) ==
  [entry EXCEPT !.data = Undefined, !.error = e,
                !.isLoading = FALSE, !.isStale = FALSE,
                !.lastResult = e,
                !.argsForLastResult = SomeArgs(entry.args)]

\* subscribe: get or create the entry under the cache key, add the callback.
Subscribe(st, args, callback, options) ==
  LET cacheKey == GenerateCacheKey(args)
      st1 == IF st.cache[cacheKey] = NoEntry
             THEN LET id == FreshId(st, cacheKey)
                  IN [st EXCEPT
                        !.entries = (id :> CreateCacheEntry(args, options.initialData)) @@ @,
                        !.cache[cacheKey] = id]
             ELSE st
      id == st1.cache[cacheKey]
  IN [st1 EXCEPT !.entries[id].subscribers = SetAdd(@, callback)]

\* Calling the function held in entry.unsubscribe.
CloseRemote(st, id) ==
  [st EXCEPT !.entries[id].unsubscribe = "closed",
             !.doubleClose = @ \/ st.entries[id].unsubscribe = "closed"]

\* Faulty variant: the closure closes the remote subscription of an emptied
\* entry and leaves the entry in the registry.
UnsubscribeKeepsEntry(st, id, callback, cacheKey) ==
  LET subs == SetDelete(st.entries[id].subscribers, callback)
      st1 == [st EXCEPT !.entries[id].subscribers = subs]
  IN IF Len(subs) = 0 /\ st1.entries[id].unsubscribe # "null"
     THEN CloseRemote(st1, id)
     ELSE st1

\* Faulty variant: the closure evicts the entry whether or not callbacks
\* remain.
UnsubscribeEvictsEarly(st, id, callback, cacheKey) ==
  LET subs == SetDelete(st.entries[id].subscribers, callback)
      st1 == [st EXCEPT !.entries[id].subscribers = subs]
      st2 == IF st1.entries[id].unsubscribe # "null"
             THEN CloseRemote(st1, id) ELSE st1
  IN [st2 EXCEPT !.cache[cacheKey] = NoEntry]

\* The unsubscribe closure subscribe returns: it holds the entry object, the
\* callback and the cache key of the call that made it.
Unsubscribe(st, id, callback, cacheKey) ==
  LET subs == SetDelete(st.entries[id].subscribers, callback)
      st1 == [st EXCEPT !.entries[id].subscribers = subs]
  IN IF Len(subs) = 0
     THEN LET st2 == IF st1.entries[id].unsubscribe # "null"
                     THEN CloseRemote(st1, id) ELSE st1
              was == st2.cache[cacheKey]
          IN [st2 EXCEPT
                !.cache[cacheKey] = NoEntry,
                !.staleKeys = IF was # NoEntry /\ ~IsUndefined(st2.entries[was].lastResult)
                              THEN @ \cup {cacheKey} ELSE @]
     ELSE st1

\* Entry objects nothing can reach any more are dropped: an entry stays while
\* the registry or an observer's closure holds it, or while its remote
\* subscription is open (the client still holds its callbacks).
Reachable(st, held) ==
  {id \in DOMAIN st.entries :
     \/ \E k \in DOMAIN st.cache : st.cache[k] = id
     \/ id \in held
     \/ st.entries[id].unsubscribe = "open"}

Collect(st, held) ==
  [id \in Reachable(st, held) |-> st.entries[id]]

\* ------------------------------------------------------------- observer
LoadingView ==
  [data |-> Undefined, error |-> Undefined, isLoading |-> TRUE, isStale |-> FALSE]

\* Priority 4 of updateLocalStateFromEntry: the synchronous local read.
SyncResultView(read) ==
  IF disabled THEN LoadingView
  ELSE IF read.kind = "value"
  THEN [data |-> read.val, error |-> Undefined, isLoading |-> FALSE, isStale |-> FALSE]
  ELSE IF read.kind = "error" \/ read.kind = "throwError"
  THEN [data |-> Undefined, error |-> read.val, isLoading |-> FALSE, isStale |-> FALSE]
  ELSE LoadingView

\* Faulty variant: the entry's data is shown as fresh whatever entry.isStale.
UpdateLocalStateShowsFresh(entry, args, keepPrevious, read) ==
  IF ~IsUndefined(entry.data)
  THEN [data |-> entry.data, error |-> Undefined, isLoading |-> FALSE,
        isStale |-> FALSE]
  ELSE IF ~IsUndefined(entry.error)
  THEN [data |-> Undefined, error |-> entry.error, isLoading |-> FALSE,
        isStale |-> entry.isStale]
  ELSE SyncResultView(read)

UpdateLocalStateFromEntry(entry, args, keepPrevious, read) ==
  LET sameArgsAsLastResult ==
        /\ entry.argsForLastResult # NoArgs
        /\ ConvexToJson(entry.argsForLastResult[1]) = ConvexToJson(args)
      staleAllowed == keepPrevious /\ Truthy(entry.lastResult)
  IN IF ~IsUndefined(entry.data)
     THEN [data |-> entry.data, error |-> Undefined, isLoading |-> FALSE,
           isStale |-> entry.isStale]
     ELSE IF ~IsUndefined(entry.error)
     THEN [data |-> Undefined, error |-> entry.error, isLoading |-> FALSE,
           isStale |-> entry.isStale]
     ELSE IF /\ staleAllowed /\ ~sameArgsAsLastResult
             /\ ~IsUndefined(entry.lastResult) /\ ~IsError(entry.lastResult)
     THEN [data |-> entry.lastResult, error |-> Undefined, isLoading |-> FALSE,
           isStale |-> TRUE]
     ELSE SyncResultView(read)

\* The view depends on the local read only when priority 4 is reached.
NoRead == [kind |-> "none", val |-> Undefined]
ReadIsUsed(entry, args, keepPrevious) ==
  UpdateLocalStateFromEntry(entry, args, keepPrevious, NoRead)
    # UpdateLocalStateFromEntry(entry, args, keepPrevious,
                                [kind |-> "error", val |-> Err(1)])

\* Faulty variant: only the callback registered first runs.
NotifiedStateFirstOnly(entry, read) ==
  [o \in Observers |->
     IF entry.subscribers # <<>> /\ o = entry.subscribers[1]
     THEN UpdateLocalStateFromEntry(entry, argsObject[o], keepPreviousData, read)
     ELSE localState[o]]

\* notifySubscribers: every callback of the entry runs, in insertion order;
\* a callback recomputes its observer's view from the entry.
NotifiedState(entry, read) ==
  [o \in Observers |->
     IF o \in Members(entry.subscribers)
     THEN UpdateLocalStateFromEntry(entry, argsObject[o], keepPreviousData, read)
     ELSE localState[o]]

DefaultArgs == CHOOSE a \in RawArgs : TRUE

\* ------------------------------------------------ store-less observer
\* The useQuery that keeps its own subscription: its state object, the args
\* of its first call, the options of its last run, and the value of the
\* derived syncResult (thrown: computing it threw).
FallbackIdle ==
  [ result |-> Undefined, argsForLastResult |-> NoArgs, lastResult |-> Undefined,
    haveArgsEverChanged |-> FALSE, initialArgs |-> DefaultArgs,
    initialData |-> Undefined, syncResult |-> Undefined, thrown |-> FALSE ]

\* syncResult: the subscription's result while initialData stands, else the
\* local read; an Error thrown is the value, any other thrown value is
\* logged and thrown again.
FallbackSyncResult(fb, read) ==
  IF Truthy(fb.initialData) /\ ~fb.haveArgsEverChanged
  THEN [fb EXCEPT !.syncResult = fb.result, !.thrown = FALSE]
  ELSE IF disabled
  THEN [fb EXCEPT !.syncResult = Undefined, !.thrown = FALSE]
  ELSE IF read.kind \in {"value", "error", "throwError"}
  THEN [fb EXCEPT !.syncResult = read.val, !.thrown = FALSE]
  ELSE [fb EXCEPT !.syncResult = Undefined,
                  !.thrown = (read.kind = "throwOther")]

\* useQuery is called: the state object is made from initialData.
FallbackUseQuery(args, options, read) ==
  FallbackSyncResult(
    [FallbackIdle EXCEPT !.result = options.initialData,
                         !.initialArgs = args,
                         !.initialData = options.initialData], read)

\* The args or options changed: the subscription effect subscribes anew (the
\* state object is left alone), and the second effect notes the first
\* departure from the initial args.
FallbackArgsChanged(fb, args, options, read) ==
  LET departs == /\ ~fb.haveArgsEverChanged
                 /\ ConvexToJson(args) # ConvexToJson(fb.initialArgs)
      seeded == departs /\ ~IsUndefined(options.initialData)
  IN FallbackSyncResult(
       [fb EXCEPT !.initialData = options.initialData,
                  !.haveArgsEverChanged = @ \/ departs,
                  !.argsForLastResult = IF seeded THEN SomeArgs(fb.initialArgs) ELSE @,
                  !.lastResult = IF seeded THEN options.initialData ELSE @],
       read)

\* The onUpdate callbacks: success and failure store alike.
FallbackOnUpdate(fb, args, x, read) ==
  FallbackSyncResult(
    [fb EXCEPT !.result = x, !.argsForLastResult = SomeArgs(args),
               !.lastResult = x], read)

\* The object useQuery returns.
FallbackView(fb, args, keepPrevious) ==
  LET sameArgsAsLastResult ==
        /\ fb.argsForLastResult # NoArgs
        /\ ConvexToJson(fb.argsForLastResult[1]) = ConvexToJson(args)
      staleAllowed == keepPrevious /\ Truthy(fb.lastResult)
      result == IF ~IsUndefined(fb.syncResult) THEN fb.syncResult
                ELSE IF staleAllowed THEN fb.lastResult ELSE Undefined
      data == IF IsError(result) THEN Undefined ELSE result
      error == IF IsError(result) THEN result ELSE Undefined
  IN [data |-> data, error |-> error,
      isLoading |-> (IsUndefined(error) /\ IsUndefined(data)),
      isStale |-> (/\ IsUndefined(fb.syncResult) /\ staleAllowed
                   /\ ~sameArgsAsLastResult /\ ~IsUndefined(result))]

\* The observer whose inputs the store-less observer is given.
Twin == CHOOSE o \in Observers : \A p \in Observers : o <= p

\* ---------------------------------------------------------------- Init
InitWith(isDisabled, kept) ==
  /\ disabled = isDisabled
  /\ history = kept
  /\ cache = [k \in CacheKeys |-> NoEntry]
  /\ entries = [id \in {} |-> Undefined]
  /\ destroyed = FALSE
  /\ bound = [o \in Observers |-> FALSE]
  /\ argsObject = [o \in Observers |-> DefaultArgs]
  /\ keepPreviousData \in BOOLEAN
  /\ currentEntry = [o \in Observers |-> NoEntry]
  /\ localState = [o \in Observers |-> LoadingView]
  /\ staleKeys = {}
  /\ doubleClose = FALSE
  /\ pages = <<>>
  /\ isLoadingMore = FALSE
  /\ resetTimers = 0
  \* queries.forEach runs once, in the call of usePaginatedQuery, over the
  \* pages of that moment: the first-page effect has not run yet.
  /\ pageQueries = DOMAIN pages
  /\ initialNumItems \in 1..MaxNumItems
  /\ fallback = FallbackIdle
  /\ registered = <<>>
  /\ notifyLog = <<>>

\* The session of a browser with a live client.
Init == InitWith(FALSE, "none")

\* The store part of the next state: st after the handler, with the entry
\* objects that `held` (the observers' closures) or the registry still reach.
StoreBecomes(st, held) ==
  /\ cache' = st.cache
  /\ entries' = Collect(st, held)
  /\ staleKeys' = IF history = "evictions" THEN st.staleKeys ELSE staleKeys
  /\ doubleClose' = IF history = "closes" THEN doubleClose \/ st.doubleClose
                    ELSE doubleClose

Held(ce) == {ce[o] : o \in Observers} \ {NoEntry}

\* subscribe can allocate the entry object it may need.
CanSubscribe(st, args) ==
  \/ st.cache[GenerateCacheKey(args)] # NoEntry
  \/ FreeIds(st, GenerateCacheKey(args)) # {}

\* ------------------------------------------------------ observer actions
\* In the actions, \E x \in {e} names the value of e: the state of the
\* store between two calls of one handler.

\* The subscription effect's body from store.subscribe on: subscribe,
\* keep the entry and the release handle, compute the view.
SubscribeAndShow(st, o, args, options, read) ==
  /\ CanSubscribe(st, args)
  /\ \E st1 \in {Subscribe(st, args, o, options)} :
     \E id \in {st1.cache[GenerateCacheKey(args)]} :
     \E ce \in {[currentEntry EXCEPT ![o] = id]} :
       /\ \/ ReadIsUsed(st1.entries[id], args, options.keepPreviousData)
          \/ read = NoRead
          \/ history = "fallback" /\ o = Twin
       /\ StoreBecomes(st1, Held(ce))
       /\ currentEntry' = ce
       /\ localState' = [localState EXCEPT ![o] =
            UpdateLocalStateFromEntry(st1.entries[id], args,
                                      options.keepPreviousData, read)]
  /\ bound' = [bound EXCEPT ![o] = TRUE]
  /\ argsObject' = [argsObject EXCEPT ![o] = args]
  /\ fallback' = IF history = "fallback" /\ o = Twin
                 THEN IF bound[o]
                      THEN FallbackArgsChanged(fallback, args, options, read)
                      ELSE FallbackUseQuery(args, options, read)
                 ELSE fallback
  /\ registered' = IF history = "notifications"
                   THEN Append(SelectSeq(registered, LAMBDA x : x # o), o)
                   ELSE registered
  /\ UNCHANGED << disabled, history, keepPreviousData, destroyed, pageVars,
                  initialNumItems, notifyLog >>

\* useQuery is called and its subscription effect runs for the first time.
Bind(o, args, options, read) ==
  /\ ~destroyed
  /\ ~bound[o]
  /\ SubscribeAndShow(St, o, args, options, read)

\* Faulty variant: the re-run subscribes without releasing.
ReleaseForRerunSkipped(st, o) == st

\* The store after observer o's subscription effect has released its
\* subscription for a re-run: the effect's teardown calls
\* currentSubscription, and the body, finding it still set, calls it again.
ReleaseForRerun(st, o) ==
  LET cacheKey == GenerateCacheKey(argsObject[o])
  IN Unsubscribe(Unsubscribe(st, currentEntry[o], o, cacheKey),
                 currentEntry[o], o, cacheKey)

\* The subscription effect re-runs after args or options changed.  The entry
\* object the release evicted is dropped before subscribe allocates, so that
\* a new entry of the same key takes the same name.
Rebind(o, args, options, read) ==
  /\ ~destroyed
  /\ bound[o]
  /\ \E st2 \in {ReleaseForRerun(St, o)} :
     \E st3 \in {[st2 EXCEPT !.entries =
                    Collect(st2, Held([currentEntry EXCEPT ![o] = NoEntry]))]} :
       SubscribeAndShow(st3, o, args, options, read)

\* The store after observer o's effect was destroyed: its teardown runs.
ReleaseForTeardown(st, o) ==
  Unsubscribe(st, currentEntry[o], o, GenerateCacheKey(argsObject[o]))

\* The observer's component is unmounted while the session lives on.  The
\* slot then stands for an observer not yet created.
Teardown(o) ==
  /\ ~destroyed
  /\ bound[o]
  /\ \E st1 \in {ReleaseForTeardown(St, o)} :
     \E ce \in {[currentEntry EXCEPT ![o] = NoEntry]} :
       /\ StoreBecomes(st1, Held(ce))
       /\ currentEntry' = ce
  /\ bound' = [bound EXCEPT ![o] = FALSE]
  /\ argsObject' = [argsObject EXCEPT ![o] = DefaultArgs]
  /\ localState' = [localState EXCEPT ![o] = LoadingView]
  /\ fallback' = IF o = Twin THEN FallbackIdle ELSE fallback
  /\ registered' = SelectSeq(registered, LAMBDA x : x # o)
  /\ UNCHANGED << disabled, history, keepPreviousData, destroyed, pageVars,
                  initialNumItems, notifyLog >>

\* --------------------------------------------------- remote deliveries
\* An entry changed and notifySubscribers ran.
Deliver(id, entry, read) ==
  /\ \/ read = NoRead
     \/ \E o \in Members(entry.subscribers) :
          ReadIsUsed(entry, argsObject[o], keepPreviousData)
     \/ history = "fallback"
  /\ entries' = [entries EXCEPT ![id] = entry]
  /\ localState' = NotifiedState(entry, read)
  /\ notifyLog' = IF history = "notifications" THEN entry.subscribers
                  ELSE notifyLog
  /\ UNCHANGED << disabled, history, keepPreviousData, cache, destroyed, bound, argsObject,
                  currentEntry, staleKeys, doubleClose, pageVars, initialNumItems,
                  registered >>

\* The RemoteClient delivers to every subscription that is open, whether or
\* not the registry still holds its entry.
RemoteData(id, dataFromServer, read) ==
  /\ id \in DOMAIN entries
  /\ entries[id].unsubscribe = "open"
  /\ Deliver(id, OnData(entries[id], dataFromServer), read)
  /\ fallback' = IF history = "fallback" /\ currentEntry[Twin] = id
                 THEN FallbackOnUpdate(fallback, argsObject[Twin], dataFromServer, read)
                 ELSE fallback

RemoteError(id, e, read) ==
  /\ id \in DOMAIN entries
  /\ entries[id].unsubscribe = "open"
  /\ Deliver(id, OnError(entries[id], e), read)
  /\ fallback' = IF history = "fallback" /\ currentEntry[Twin] = id
                 THEN FallbackOnUpdate(fallback, argsObject[Twin], e, read)
                 ELSE fallback

\* Faulty variant: the entry is updated and no callback is invoked.
UpdateQueryDataQuiet(args, updater, read) ==
  LET id == cache[GenerateCacheKey(args)]
  IN IF id # NoEntry /\ ~IsUndefined(entries[id].data)
     THEN /\ read = NoRead
          /\ entries' = [entries EXCEPT ![id].data = ApplyUpdater(updater, @),
                                        ![id].isStale = TRUE]
          /\ UNCHANGED << disabled, history, keepPreviousData, cache, destroyed,
                          observerVars, staleKeys, doubleClose, pageVars,
                          initialNumItems, auxVars >>
     ELSE UNCHANGED vars

\* ------------------------------------------------------- store facade
UpdateQueryData(args, updater, read) ==
  LET id == cache[GenerateCacheKey(args)]
  IN IF id # NoEntry /\ ~IsUndefined(entries[id].data)
     THEN /\ Deliver(id, [entries[id] EXCEPT !.data = ApplyUpdater(updater, @),
                                             !.isStale = TRUE], read)
          /\ UNCHANGED fallback
     ELSE UNCHANGED vars

\* Faulty variant: the entry is marked and no callback is invoked.
InvalidateQueryQuiet(args, read) ==
  LET id == cache[GenerateCacheKey(args)]
  IN IF id # NoEntry
     THEN /\ read = NoRead
          /\ entries' = [entries EXCEPT ![id].isLoading = TRUE,
                                        ![id].isStale = FALSE]
          /\ UNCHANGED << disabled, history, keepPreviousData, cache, destroyed,
                          observerVars, staleKeys, doubleClose, pageVars,
                          initialNumItems, auxVars >>
     ELSE UNCHANGED vars

InvalidateQuery(args, read) ==
  LET id == cache[GenerateCacheKey(args)]
  IN IF id # NoEntry
     THEN /\ Deliver(id, [entries[id] EXCEPT !.isLoading = TRUE,
                                             !.isStale = FALSE], read)
          /\ UNCHANGED fallback
     ELSE UNCHANGED vars

RECURSIVE CloseAll(_, _)
CloseAll(st, ids) ==
  IF ids = {} THEN st
  ELSE LET id == CHOOSE i \in ids : TRUE
       IN CloseAll(IF st.entries[id].unsubscribe # "null"
                   THEN CloseRemote(st, id) ELSE st,
                   ids \ {id})

\* destroy: every registry entry's remote subscription is closed and the
\* registry cleared.
DestroyStore(st) ==
  [CloseAll(st, {st.cache[k] : k \in CacheKeys} \ {NoEntry})
     EXCEPT !.cache = [k \in CacheKeys |-> NoEntry]]

RECURSIVE TeardownAll(_, _)
TeardownAll(st, os) ==
  IF os = {} THEN st
  ELSE LET o == CHOOSE x \in os : \A y \in os : x <= y
       IN TeardownAll(ReleaseForTeardown(st, o), os \ {o})

\* The store after the session's root component was unmounted: the teardown
\* of setupConvex's effect, the first effect made under that component, runs
\* store.destroy(); the teardowns of the observers' effects follow it in the
\* same synchronous pass.
UnmountSession(st) ==
  TeardownAll(DestroyStore(st), {o \in Observers : bound[o]})

Destroy ==
  /\ ~destroyed
  /\ StoreBecomes(UnmountSession(St), {})
  /\ destroyed' = TRUE
  /\ bound' = [o \in Observers |-> FALSE]
  /\ argsObject' = [o \in Observers |-> DefaultArgs]
  /\ currentEntry' = [o \in Observers |-> NoEntry]
  /\ localState' = [o \in Observers |-> LoadingView]
  /\ fallback' = FallbackIdle
  /\ registered' = <<>>
  /\ UNCHANGED << disabled, history, keepPreviousData, pageVars, initialNumItems,
                  notifyLog >>

\* ------------------------------------------------------------ pagination
\* A page's result is <<>> while undefined, else <<r>> with r a
\* PaginationResult [page, continueCursor, isDone].
NoResult == <<>>
NullCursor == "null"
Cursors == {"c1", "c2"}
PageResults ==
  [page : {<<>>, <<1>>, <<2>>}, continueCursor : Cursors, isDone : BOOLEAN]

\* Faulty variant: the first page starts at a cursor.
FirstPageEffectAtCursor ==
  /\ pages' = IF Len(pages) = 0
              THEN << [cursor |-> "c1", numItems |-> initialNumItems,
                       result |-> NoResult] >>
              ELSE pages
  /\ UNCHANGED << disabled, history, keepPreviousData, storeVars, observerVars,
                  isLoadingMore, resetTimers, pageQueries, initialNumItems, auxVars >>

\* The first-page effect.
FirstPageEffect ==
  /\ pages' = IF Len(pages) = 0
              THEN << [cursor |-> NullCursor, numItems |-> initialNumItems,
                       result |-> NoResult] >>
              ELSE pages
  /\ UNCHANGED << disabled, history, keepPreviousData, storeVars, observerVars, isLoadingMore,
                  resetTimers, pageQueries, initialNumItems, auxVars >>

\* The result effect of the observer queries.forEach made for page `index`.
PageResultEffect(index, data) ==
  /\ index \in pageQueries
  /\ pages' = IF index \in DOMAIN pages
              THEN [pages EXCEPT ![index].result = <<data>>]
              ELSE pages
  /\ UNCHANGED << disabled, history, keepPreviousData, storeVars, observerVars, isLoadingMore,
                  resetTimers, pageQueries, initialNumItems, auxVars >>

Status ==
  IF Len(pages) = 0 THEN "LoadingFirstPage"
  ELSE IF pages[1].result = NoResult THEN "LoadingFirstPage"
  ELSE IF isLoadingMore THEN "LoadingMore"
  ELSE IF pages[Len(pages)].result # NoResult /\ pages[Len(pages)].result[1].isDone
  THEN "Exhausted"
  ELSE "CanLoadMore"

IsLoading == Status = "LoadingFirstPage" \/ Status = "LoadingMore"

\* Faulty variant: the pages' items are joined last page first.
RECURSIVE CombinedResultsReversed(_)
CombinedResultsReversed(ps) ==
  IF ps = <<>> THEN <<>>
  ELSE CombinedResultsReversed(Tail(ps))
         \o (IF Head(ps).result # NoResult THEN Head(ps).result[1].page ELSE <<>>)

RECURSIVE CombinedResultsOf(_)
CombinedResultsOf(ps) ==
  IF ps = <<>> THEN <<>>
  ELSE (IF Head(ps).result # NoResult THEN Head(ps).result[1].page ELSE <<>>)
         \o CombinedResultsOf(Tail(ps))

CombinedResults == CombinedResultsOf(pages)

\* Faulty variant: loadMore appends whenever the last page has a result,
\* whatever the status.
LoadMoreAnyStatus(numItems) ==
  IF Len(pages) = 0 \/ pages[Len(pages)].result = NoResult
  THEN UNCHANGED vars
  ELSE /\ isLoadingMore' = TRUE
       /\ pages' = Append(pages,
            [cursor |-> pages[Len(pages)].result[1].continueCursor,
             numItems |-> numItems, result |-> NoResult])
       /\ resetTimers' = resetTimers + 1
       /\ UNCHANGED << disabled, history, keepPreviousData, storeVars, observerVars, pageQueries, initialNumItems, auxVars >>

LoadMore(numItems) ==
  IF Status # "CanLoadMore"
  THEN UNCHANGED vars
  ELSE LET lastPage == pages[Len(pages)]
       IN IF lastPage.result = NoResult
          THEN UNCHANGED vars
          ELSE /\ isLoadingMore' = TRUE
               /\ pages' = Append(pages,
                    [cursor |-> lastPage.result[1].continueCursor,
                     numItems |-> numItems, result |-> NoResult])
               /\ resetTimers' = resetTimers + 1
               /\ UNCHANGED << disabled, history, keepPreviousData, storeVars, observerVars, pageQueries, initialNumItems, auxVars >>

\* The setTimeout(..., 0) callback of loadMore.
ResetLoadingMore ==
  /\ resetTimers > 0
  /\ resetTimers' = resetTimers - 1
  /\ isLoadingMore' = FALSE
  /\ UNCHANGED << disabled, history, keepPreviousData, storeVars, observerVars, pages,
                  pageQueries, initialNumItems, auxVars >>

\* ------------------------------------------------------------------ Next
ObserverStep(os) ==
  \/ \E o \in os, a \in RawArgs, opt \in Options, r \in ReadOutcomes :
       Bind(o, a, opt, r)
  \/ \E o \in os, a \in RawArgs, opt \in Options, r \in ReadOutcomes :
       Rebind(o, a, opt, r)
  \/ \E o \in os : Teardown(o)

StoreStep ==
  \/ \E id \in EntryIds, x \in Values, r \in ReadOutcomes : RemoteData(id, x, r)
  \/ \E id \in EntryIds, e \in Errors, r \in ReadOutcomes : RemoteError(id, e, r)
  \/ \E a \in RawArgs, u \in Updaters, r \in ReadOutcomes : UpdateQueryData(a, u, r)
  \/ \E a \in RawArgs, r \in ReadOutcomes : InvalidateQuery(a, r)
  \/ Destroy

\* The steps of usePaginatedQuery.  queries.forEach ran over the empty page
\* list (pageQueries = {}), so no page has an observer and no result effect
\* exists to run; a timer of loadMore exists only once loadMore has appended.
PageStep ==
  \/ FirstPageEffect
  \/ \E n \in 1..MaxNumItems : LoadMore(n)

\* A session whose components call useQuery.
Next == ObserverStep(Observers) \/ StoreStep

Spec == Init /\ [][Next]_vars

\* The same session keeping the history of evictions.
InitHistory == InitWith(FALSE, "evictions")

SpecHistory == InitHistory /\ [][Next]_vars

\* The same session keeping the history of the remote subscriptions' closes.
InitCloses == InitWith(FALSE, "closes")

SpecCloses == InitCloses /\ [][Next]_vars

\* The same session keeping the history of registrations and notifications.
InitNotify == InitWith(FALSE, "notifications")

SpecNotify == InitNotify /\ [][Next]_vars

\* One store-backed observer and, beside it, a store-less observer given the
\* same args, options, remote deliveries and local-read results.  After a
\* delivery the local read returns what was delivered: the client's local
\* result of a subscribed query is the server's last result.
InitTwins == InitWith(FALSE, "fallback")

TwinsNext ==
  \/ ObserverStep({Twin})
  \/ \E id \in EntryIds, x \in Values :
       RemoteData(id, x, [kind |-> "value", val |-> x])
  \/ \E id \in EntryIds, e \in Errors :
       RemoteError(id, e, [kind |-> "throwError", val |-> e])
  \/ Destroy

SpecTwins == InitTwins /\ [][TwinsNext]_vars

\* A session with one useQuery observer and one usePaginatedQuery.
PageNext == ObserverStep({1}) \/ StoreStep \/ PageStep

PageSpec == Init /\ [][PageNext]_vars

\* The pagination handlers taken on their own, from every page list of up to
\* MaxPages pages that loadMore can have built had results arrived: page 0
\* alone may lack its result, and each later page starts at its predecessor's
\* continueCursor and has its result.  No load is in flight at the start.  No
\* store or observer step is taken; no page has an observer.
PageDescriptors(cursor) ==
  [cursor : {cursor}, numItems : 1..MaxNumItems,
   result : {NoResult} \cup {<<r>> : r \in PageResults}]

RECURSIVE PageListsFrom(_, _)
PageListsFrom(ps, n) ==
  IF n = 0 \/ ps[Len(ps)].result = NoResult THEN {ps}
  ELSE {ps} \cup
       UNION {PageListsFrom(Append(ps, d), n - 1) :
                d \in {x \in PageDescriptors(ps[Len(ps)].result[1].continueCursor) :
                          x.result # NoResult}}

PageLists ==
  {<<>>} \cup UNION {PageListsFrom(<<d>>, MaxPages - 1) :
                       d \in PageDescriptors(NullCursor)}

PageUnitInit ==
  /\ disabled = FALSE
  /\ history = "none"
  /\ cache = [k \in CacheKeys |-> NoEntry]
  /\ entries = [id \in {} |-> Undefined]
  /\ destroyed = FALSE
  /\ bound = [o \in Observers |-> FALSE]
  /\ argsObject = [o \in Observers |-> DefaultArgs]
  /\ keepPreviousData = FALSE
  /\ currentEntry = [o \in Observers |-> NoEntry]
  /\ localState = [o \in Observers |-> LoadingView]
  /\ staleKeys = {}
  /\ doubleClose = FALSE
  /\ pages \in PageLists
  /\ isLoadingMore = FALSE
  /\ resetTimers = 0
  /\ pageQueries = {}
  /\ initialNumItems \in 1..MaxNumItems
  /\ fallback = FallbackIdle
  /\ registered = <<>>
  /\ notifyLog = <<>>

PageUnitNext ==
  \/ FirstPageEffect
  \/ \E n \in 1..MaxNumItems : Len(pages) < MaxPages /\ LoadMore(n)
  \/ ResetLoadingMore

PageUnitSpec == PageUnitInit /\ [][PageUnitNext]_vars

\* ---------------------------------------------------------------- claims
\* An entry's remote subscription is live: opened and not yet closed.
Live(id) == entries[id].unsubscribe = "open"
InRegistry(id) == \E k \in CacheKeys : cache[k] = id
KeyOf(o) == GenerateCacheKey(argsObject[o])

\* C1: for each distinct cache key (function name plus canonical args) at
\* most one remote subscription is live, however many observers subscribed
\* and in whatever order; observers whose args are equal under
\* canonicalization share the same Entry.
C1_OneLiveSubscriptionPerKey ==
  /\ \A i, j \in DOMAIN entries :
       (/\ Live(i) /\ Live(j)
        /\ ConvexToJson(entries[i].args) = ConvexToJson(entries[j].args))
       => i = j
  /\ \A o1, o2 \in Observers :
       (/\ bound[o1] /\ bound[o2]
        /\ ConvexToJson(argsObject[o1]) = ConvexToJson(argsObject[o2]))
       => currentEntry[o1] = currentEntry[o2]

\* Two observers passed args objects that differ in field order and share
\* one entry with one live subscription.
C1_SharedEntryReached ==
  \E o1, o2 \in Observers :
    /\ o1 # o2 /\ bound[o1] /\ bound[o2]
    /\ argsObject[o1] # argsObject[o2]
    /\ ConvexToJson(argsObject[o1]) = ConvexToJson(argsObject[o2])
    /\ currentEntry[o1] = currentEntry[o2]
    /\ Live(currentEntry[o1])
    /\ Len(entries[currentEntry[o1]].subscribers) = 2

\* C2: every remote subscription that was opened is held by the entry in the
\* registry or has been closed, and no remote subscription is closed more
\* than once, rebinds and teardowns of observers included.
C2_NoDanglingNoDoubleClose ==
  /\ \A id \in DOMAIN entries : Live(id) => InRegistry(id)
  /\ ~doubleClose

FreshFrom(entry, args, initialData) ==
  /\ entry.args = args
  /\ entry.data = initialData
  /\ entry.error = Undefined
  /\ entry.lastResult = initialData
  /\ entry.isLoading = IsUndefined(initialData)
  /\ entry.isStale = FALSE
  /\ entry.argsForLastResult \in {NoArgs, SomeArgs(args)}
  /\ IsUndefined(initialData) => entry.argsForLastResult = NoArgs
  /\ entry.unsubscribe = "open"

\* Observer o (re)subscribed in this step: its effect ran for the first
\* time, or re-ran with args of another key.
Subscribed(o) ==
  /\ bound'[o]
  /\ ~bound[o] \/ GenerateCacheKey(argsObject'[o]) # KeyOf(o)

\* C4: a subscribe that finds no entry for its key, the key's previous entry
\* having been evicted, creates a new entry with a newly opened remote
\* subscription, whose data, error, lastResult and argsForLastResult come
\* from the subscriber's initialData alone (absent, with isLoading = true,
\* when there is none).
C4_ResubscribeCreatesFreshEntry ==
  [][\A o \in Observers :
       (Subscribed(o) /\ entries'[currentEntry'[o]].subscribers = <<o>>) =>
         \A opt \in Options, r \in ReadOutcomes :
           (\/ Bind(o, argsObject'[o], opt, r)
            \/ Rebind(o, argsObject'[o], opt, r))
           => FreshFrom(entries'[currentEntry'[o]], argsObject'[o],
                        opt.initialData)]_vars

\* A key whose evicted entry had held a result has a new entry that holds no
\* result and is loading over a live subscription.
C4_FreshEntryAfterEviction ==
  \E k \in staleKeys :
    /\ cache[k] # NoEntry
    /\ IsUndefined(entries[cache[k]].lastResult)
    /\ IsUndefined(entries[cache[k]].data)
    /\ entries[cache[k]].isLoading
    /\ Live(cache[k])

\* The view that shows data x.
DataView(x, stale) ==
  [data |-> x, error |-> Undefined, isLoading |-> FALSE, isStale |-> stale]

\* C5: updateQueryData changes nothing and notifies nobody when the key has
\* no entry or the entry's data is absent; otherwise it sets data =
\* updater(data) and isStale = true and every subscriber's callback runs (its
\* view shows the new data); in both cases no remote subscription is opened
\* or closed and error, isLoading, lastResult, argsForLastResult and the
\* subscriber set stay as they were.
C5_UpdateQueryDataEffect ==
  [][\A a \in RawArgs, u \in Updaters, r \in ReadOutcomes :
       UpdateQueryData(a, u, r) =>
         LET id == cache[<<"query", ConvexToJson(a)>>]
         IN IF id = NoEntry \/ IsUndefined(entries[id].data)
            THEN UNCHANGED vars
            ELSE /\ entries' =
                      [entries EXCEPT ![id].data = ApplyUpdater(u, entries[id].data),
                                      ![id].isStale = TRUE]
                 /\ cache' = cache
                 /\ doubleClose' = doubleClose
                 /\ \A o \in Observers :
                      localState'[o] =
                        IF o \in Members(entries[id].subscribers)
                        THEN DataView(ApplyUpdater(u, entries[id].data), TRUE)
                        ELSE localState[o]]_vars

\* An entry holds optimistically updated data, marked stale, that differs
\* from its last remote result, and its subscribers show it.
C5_OptimisticDataShown ==
  \E id \in DOMAIN entries :
    /\ entries[id].isStale
    /\ ~IsUndefined(entries[id].data)
    /\ entries[id].data # entries[id].lastResult
    /\ entries[id].subscribers # <<>>
    /\ \A o \in Members(entries[id].subscribers) :
         localState[o] = DataView(entries[id].data, TRUE)

\* C6: with keepPreviousData set, when an observer whose view shows a
\* delivered result for args A rebinds to args B, its view shows A's value
\* with isLoading = false and isStale = true for as long as no result for B
\* has been delivered.
C6_PreviousDataShownAfterRebind ==
  [][\A o \in Observers :
       (/\ keepPreviousData
        /\ bound[o] /\ bound'[o]
        /\ GenerateCacheKey(argsObject'[o]) # KeyOf(o)
        /\ localState[o].data \in Values \ {Val(MaxVal)}
        /\ ~localState[o].isStale
        /\ entries[currentEntry[o]].lastResult = localState[o].data
        /\ IsUndefined(entries'[currentEntry'[o]].lastResult))
       => localState'[o] = DataView(localState[o].data, TRUE)]_vars

\* C7: once an observer's args have changed, its initialData is not used
\* again: neither as the data it displays nor as the data of an entry it
\* binds to.
C7_InitialDataOnlyBeforeArgsChange ==
  [][\A o \in Observers :
       (/\ bound[o] /\ bound'[o]
        /\ GenerateCacheKey(argsObject'[o]) # KeyOf(o)
        /\ entries'[currentEntry'[o]].subscribers = <<o>>)
       => \A opt \in Options, r \in ReadOutcomes :
            (Rebind(o, argsObject'[o], opt, r) /\ ~IsUndefined(opt.initialData))
            => /\ entries'[currentEntry'[o]].data # opt.initialData
               /\ localState'[o].data # opt.initialData]_vars

\* C8: no entry ever holds data and error together.
C8_DataAndErrorExclusive ==
  \A id \in DOMAIN entries :
    IsUndefined(entries[id].data) \/ IsUndefined(entries[id].error)

\* One entry holds a delivered failure and no data while another holds
\* optimistically updated data and no error.
C8_ErrorAndDataEntriesReached ==
  \E i, j \in DOMAIN entries :
    /\ ~IsUndefined(entries[i].error) /\ IsUndefined(entries[i].data)
    /\ entries[i].lastResult = entries[i].error
    /\ ~IsUndefined(entries[j].data) /\ IsUndefined(entries[j].error)
    /\ entries[j].isStale

\* The views the four-step priority allows for an entry; the outcome of the
\* local read of step 4 is not part of the state, so step 4 allows each view
\* a read can give.
PriorityViews(entry, args, keepPrevious) ==
  IF ~IsUndefined(entry.data)
  THEN {DataView(entry.data, entry.isStale)}
  ELSE IF ~IsUndefined(entry.error)
  THEN {[data |-> Undefined, error |-> entry.error, isLoading |-> FALSE,
         isStale |-> b] : b \in BOOLEAN}
  ELSE IF /\ keepPrevious
          /\ \/ entry.argsForLastResult = NoArgs
             \/ ConvexToJson(entry.argsForLastResult[1]) # ConvexToJson(args)
          /\ entry.lastResult \in Values
  THEN {DataView(entry.lastResult, TRUE)}
  ELSE {LoadingView}
         \cup {DataView(x, FALSE) : x \in Values}
         \cup {[data |-> Undefined, error |-> e, isLoading |-> FALSE,
                isStale |-> FALSE] : e \in Errors}

\* C9: the view an observer shows is the one the four-step priority derives
\* from its entry: the entry's data, else its error, else the last result as
\* stale data under keepPreviousData, else the outcome of the local read.
C9_ViewFollowsPriority ==
  \A o \in Observers :
    bound[o] =>
      localState[o] \in PriorityViews(entries[currentEntry[o]], argsObject[o],
                                      keepPreviousData)

\* One observer shows its entry's stale data (step 1) while another, whose
\* entry holds no data and no error, shows the value of the local read
\* (step 4).
C9_DataAndLocalReadShown ==
  \E o1, o2 \in Observers :
    /\ bound[o1] /\ bound[o2]
    /\ ~IsUndefined(entries[currentEntry[o1]].data)
    /\ entries[currentEntry[o1]].isStale
    /\ localState[o1] = DataView(entries[currentEntry[o1]].data, TRUE)
    /\ IsUndefined(entries[currentEntry[o2]].data)
    /\ IsUndefined(entries[currentEntry[o2]].error)
    /\ localState[o2] = DataView(Val(MaxVal), FALSE)

\* C10: page 0 has cursor null, every later page has the cursor its
\* predecessor's result continues at, and that predecessor has a result.
C10_CursorChain ==
  /\ Len(pages) >= 1 => pages[1].cursor = NullCursor
  /\ \A i \in 2..Len(pages) :
       /\ pages[i - 1].result # NoResult
       /\ pages[i].cursor = pages[i - 1].result[1].continueCursor

\* The first-page effect has made page 0.
C10_FirstPageMade ==
  /\ Len(pages) >= 1
  /\ pages[1].cursor = NullCursor
  /\ pages[1].numItems = initialNumItems

LastPage == pages[Len(pages)]

C12_LoadMoreEffect ==
  [][\A n \in 1..MaxNumItems :
       LoadMore(n) =>
         IF /\ Len(pages) >= 1
            /\ pages[1].result # NoResult
            /\ ~isLoadingMore
            /\ LastPage.result # NoResult
            /\ ~LastPage.result[1].isDone
         THEN pages' = pages \o
                << [cursor |-> LastPage.result[1].continueCursor,
                    numItems |-> n, result |-> NoResult] >>
         ELSE pages' = pages /\ isLoadingMore' = isLoadingMore]_vars

\* loadMore has appended a second page at the first page's continueCursor.
C12_PageAppended ==
  /\ Len(pages) = 2
  /\ pages[2].result = NoResult
  /\ pages[2].cursor = pages[1].result[1].continueCursor
  /\ isLoadingMore

\* The decision table of the status, top to bottom.
StatusTable ==
  CASE Len(pages) = 0 -> "LoadingFirstPage"
    [] Len(pages) > 0 /\ pages[1].result = NoResult -> "LoadingFirstPage"
    [] Len(pages) > 0 /\ pages[1].result # NoResult /\ isLoadingMore -> "LoadingMore"
    [] OTHER ->
         IF LastPage.result # NoResult /\ LastPage.result[1].isDone
         THEN "Exhausted" ELSE "CanLoadMore"

RECURSIVE ItemsOfFirst(_)
ItemsOfFirst(n) ==
  IF n = 0 THEN <<>>
  ELSE ItemsOfFirst(n - 1) \o
       (IF pages[n].result # NoResult THEN pages[n].result[1].page ELSE <<>>)

\* C14: results is the concatenation, in page order, of the items of every
\* page that has a result; pages are never removed or reordered and a page's
\* cursor and numItems never change.
C14_ResultsConcatenatedAppendOnly ==
  /\ [](CombinedResults = ItemsOfFirst(Len(pages)))
  /\ [][/\ Len(pages') >= Len(pages)
        /\ \A i \in 1..Len(pages) :
             /\ pages'[i].cursor = pages[i].cursor
             /\ pages'[i].numItems = pages[i].numItems]_vars

\* Two pages with different items have results and results shows the first
\* page's items before the second's.
C14_TwoPagesJoined ==
  /\ Len(pages) = 2
  /\ pages[1].result # NoResult /\ pages[2].result # NoResult
  /\ pages[1].result[1].page = <<1>>
  /\ pages[2].result[1].page = <<2>>
  /\ CombinedResults = <<1, 2>>

\* The view that shows error e.
ErrorView(e, stale) ==
  [data |-> Undefined, error |-> e, isLoading |-> FALSE, isStale |-> stale]

C16_DestroyClosesEachOnce ==
  /\ [](destroyed =>
          /\ \A k \in CacheKeys : cache[k] = NoEntry
          /\ \A id \in DOMAIN entries : ~Live(id))
  /\ [][(~destroyed /\ destroyed') => doubleClose' = doubleClose]_vars

\* C17: a failure the remote client delivers is stored as the entry's error,
\* with data cleared, isLoading and isStale false and lastResult the error,
\* and every subscriber shows it as error with no data and isLoading false;
\* the subscription stays open, and a later success replaces the error.
C17_FailureDeliveredAsError ==
  [][\A id \in DOMAIN entries :
       Live(id) =>
         /\ \A e \in Errors, r \in ReadOutcomes :
              RemoteError(id, e, r) =>
                /\ entries' = [entries EXCEPT
                      ![id].data = Undefined, ![id].error = e,
                      ![id].isLoading = FALSE, ![id].isStale = FALSE,
                      ![id].lastResult = e,
                      ![id].argsForLastResult = SomeArgs(entries[id].args)]
                /\ Live(id)'
                /\ \A o \in Observers :
                     localState'[o] =
                       IF o \in Members(entries[id].subscribers)
                       THEN ErrorView(e, FALSE) ELSE localState[o]
         /\ \A x \in Values, r \in ReadOutcomes :
              (RemoteData(id, x, r) /\ ~IsUndefined(entries[id].error)) =>
                /\ entries'[id].data = x
                /\ IsUndefined(entries'[id].error)
                /\ \A o \in Members(entries[id].subscribers) :
                     localState'[o] = DataView(x, FALSE)]_vars

\* An entry with a live subscription holds a delivered failure and its
\* subscribers show it.
C17_FailureShown ==
  \E id \in DOMAIN entries :
    /\ Live(id)
    /\ IsError(entries[id].error)
    /\ entries[id].lastResult = entries[id].error
    /\ IsUndefined(entries[id].data)
    /\ ~entries[id].isLoading
    /\ entries[id].subscribers # <<>>
    /\ \A o \in Members(entries[id].subscribers) :
         localState[o] = ErrorView(entries[id].error, FALSE)

ThrowOther == [kind |-> "throwOther", val |-> Undefined]

\* C18: a non-Error thrown by the local read while an observer computes its
\* view is re-thrown and not turned into a loading or error view: a re-run of
\* the effect in which the read throws it leaves the view as it was.
C18_NonErrorRethrown ==
  [][\A o \in Observers :
       (/\ bound[o] /\ bound'[o]
        /\ localState[o] # LoadingView
        /\ localState'[o] # localState[o])
       => \A opt \in Options : ~Rebind(o, argsObject'[o], opt, ThrowOther)]_vars


\* C19: the store-less observer and the store-backed observer are
\* equivalent from outside: given the same args changes, options, remote
\* deliveries and local-read results, both expose the same view (data,
\* error, isLoading, isStale) after every step, and neither throws.
C19_FallbackEquivalent ==
  bound[Twin] =>
    /\ ~fallback.thrown
    /\ localState[Twin] = FallbackView(fallback, argsObject[Twin], keepPreviousData)


\* The observers registered on an entry, oldest registration first.
RegistrationOrder(entry) ==
  SelectSeq(registered, LAMBDA o : o \in Members(entry.subscribers))

\* C20: when a remote success is delivered to an entry, all of the entry's
\* fields (data, error, isLoading, isStale, lastResult, argsForLastResult)
\* are updated before any subscriber is notified, so every callback sees the
\* delivered data as fresh; then every callback registered on the entry is
\* invoked exactly once, in the order of registration.
C20_SuccessUpdatesThenNotifiesInOrder ==
  [][\A id \in DOMAIN entries : \A x \in Values :
       (/\ Live(id)
        /\ id \in DOMAIN entries'
        /\ entries'[id].data = x
        /\ \E r \in ReadOutcomes : RemoteData(id, x, r))
       => /\ entries'[id] = OnData(entries[id], x)
          /\ \A o \in Members(entries[id].subscribers) :
               localState'[o] = DataView(x, FALSE)
          /\ notifyLog' = RegistrationOrder(entries[id])
          /\ Len(notifyLog') = Cardinality(Members(entries[id].subscribers))
          /\ Members(notifyLog') = Members(entries[id].subscribers)]_vars

\* Two observers share an entry, the one registered first not being the one
\* of the lower number, and a success was delivered to both.
C20_BothNotifiedInOrder ==
  /\ \A o \in Observers : bound[o]
  /\ currentEntry[1] = currentEntry[2]
  /\ registered = <<2, 1>>
  /\ notifyLog = <<2, 1>>
  /\ \A o \in Observers : \E x \in Values : localState[o] = DataView(x, FALSE)


\* C21: the deliveries to one entry are applied one by one, none dropped or
\* merged: each success makes lastResult and data the delivered value and
\* isStale false, whatever optimistic data the entry held; each failure makes
\* lastResult the delivered error; and updateQueryData and invalidateQuery
\* leave every entry's lastResult alone, so that lastResult is always the
\* result delivered last.
C21_DeliveriesAppliedInOrder ==
  [][/\ \A id \in DOMAIN entries :
          Live(id) =>
            /\ \A x \in Values, r \in ReadOutcomes :
                 RemoteData(id, x, r) =>
                   /\ entries'[id].lastResult = x
                   /\ entries'[id].data = x
                   /\ ~entries'[id].isStale
            /\ \A e \in Errors, r \in ReadOutcomes :
                 RemoteError(id, e, r) =>
                   /\ entries'[id].lastResult = e
                   /\ entries'[id].error = e
     /\ \A a \in RawArgs, r \in ReadOutcomes :
          (\/ InvalidateQuery(a, r)
           \/ \E u \in Updaters : UpdateQueryData(a, u, r))
          => /\ DOMAIN entries' = DOMAIN entries
             /\ \A id \in DOMAIN entries :
                  entries'[id].lastResult = entries[id].lastResult]_vars

\* An entry whose last delivery was a value no initialData can be holds
\* optimistic data over it: lastResult is still the delivered value.
C21_OptimisticOverDelivered ==
  \E id \in DOMAIN entries :
    /\ Live(id)
    /\ entries[id].lastResult \in Values \ {Val(MaxVal)}
    /\ entries[id].isStale
    /\ ~IsUndefined(entries[id].data)
    /\ entries[id].data # entries[id].lastResult


\* C22: a store-backed observer holds at most one store subscription: its
\* callback is registered in the entry its closure holds, which is the
\* registry's entry for its current args, and in no other entry; an observer
\* torn down is registered nowhere; and when no observer is bound the
\* registry is empty and no remote subscription is live.
C22_OneSubscriptionPerObserver ==
  /\ \A o \in Observers : \A id \in DOMAIN entries :
       o \in Members(entries[id].subscribers)
         <=> (bound[o] /\ currentEntry[o] = id)
  /\ \A o \in Observers : bound[o] => cache[KeyOf(o)] = currentEntry[o]
  /\ (\A o \in Observers : ~bound[o]) =>
       /\ \A k \in CacheKeys : cache[k] = NoEntry
       /\ \A id \in DOMAIN entries : ~Live(id)

\* Two observers are bound to different keys, one of them to a key whose
\* entry holds a delivered result, and each entry has its one subscriber.
C22_EachInItsOwnEntry ==
  /\ \A o \in Observers : bound[o]
  /\ KeyOf(1) # KeyOf(2)
  /\ \A o \in Observers : entries[currentEntry[o]].subscribers = <<o>>
  /\ \E o \in Observers : entries[currentEntry[o]].lastResult \in Values \ {Val(MaxVal)}
  /\ Cardinality(DOMAIN entries) = 2


\* C23: every page of the page list, page 0 and every page loadMore
\* appended, has a query observer made for it, whose result effect stores
\* the data delivered for the page as the page's result.
C23_EveryPageObserved ==
  \A index \in DOMAIN pages : index \in pageQueries


\* C24: the release handle is idempotent and scoped to its entry: the second
\* of the two invocations a re-run of the subscription effect makes removes
\* nothing from the registry that the first left there, and closes no remote
\* subscription.
C24_SecondReleaseDoesNothing ==
  /\ [](\A o \in Observers :
          bound[o] => ReleaseForRerun(St, o).cache = ReleaseForTeardown(St, o).cache)
  /\ [][\A o \in Observers :
          (/\ bound[o] /\ bound'[o] /\ ~doubleClose
           /\ \E a \in RawArgs, opt \in Options, r \in ReadOutcomes :
                Rebind(o, a, opt, r))
          => ~doubleClose']_vars


\* C25: after every store operation and remote delivery, every bound
\* observer shows the view of its entry as the entry is now: the entry's data
\* with the entry's isStale when the entry holds data, else the entry's error
\* when it holds one; observers sharing an entry therefore show the same, and
\* none shows a value its entry holds no more.
C25_BoundViewsMatchEntry ==
  \A o \in Observers :
    bound[o] =>
      /\ currentEntry[o] \in DOMAIN entries
      /\ LET entry == entries[currentEntry[o]]
         IN /\ ~IsUndefined(entry.data) =>
                 localState[o] = DataView(entry.data, entry.isStale)
            /\ (IsUndefined(entry.data) /\ ~IsUndefined(entry.error)) =>
                 localState[o] = ErrorView(entry.error, entry.isStale)

\* Two observers share an entry whose delivered result was replaced by
\* optimistic data, and both show the optimistic data as stale.
C25_SharedOptimisticDataShown ==
  /\ \A o \in Observers : bound[o]
  /\ currentEntry[1] = currentEntry[2]
  /\ LET entry == entries[currentEntry[1]]
     IN /\ entry.isStale
        /\ ~IsUndefined(entry.data)
        /\ ~IsUndefined(entry.lastResult)
        /\ entry.data # entry.lastResult
        /\ \A o \in Observers : localState[o] = DataView(entry.data, TRUE)


\* C26: an entry marked stale by an optimistic update stays marked until a
\* remote delivery: updateQueryData and invalidateQuery leave every stale
\* entry stale, and so does an observer's joining or leaving the entry's
\* subscribers.
C26_StaleUntilDelivery ==
  [][/\ \A a \in RawArgs, r \in ReadOutcomes :
          (\/ InvalidateQuery(a, r)
           \/ \E u \in Updaters : UpdateQueryData(a, u, r))
          => \A id \in DOMAIN entries :
               entries[id].isStale =>
                 /\ id \in DOMAIN entries'
                 /\ entries'[id].isStale
     /\ \A id \in DOMAIN entries :
          (/\ entries[id].isStale
           /\ id \in DOMAIN entries'
           /\ entries'[id].subscribers # entries[id].subscribers
           /\ Members(entries'[id].subscribers)
                 \cap Members(entries[id].subscribers) # {})
          => entries'[id].isStale]_vars

====
